---- MODULE Spec2Model ----
(***************************************************************************)
(* Model of the numeric core of lussac (lussac/utils/misc.py): the sorted  *)
(* sweeps that count refractory-period violations and coincidences, the    *)
(* coincidence and similarity matrices, and the contamination estimates.   *)
(*                                                                         *)
(* The library is stateless: the state of the model is the call in flight  *)
(* (op, args), what it returned or raised (ret), and the process-wide      *)
(* constant Utils.t_max.  Every function is an operator that walks the     *)
(* arrays the way the Python loops do.  The model also holds the gaussian  *)
(* kernel, whose parallel loop is followed step by step (histogram,        *)
(* start_j, pending, workers), the Gaussian band filter, and the shape of  *)
(* the templates of MonoSortingModule.get_templates (lussac/core/module.py)*)
(*                                                                         *)
(* Numbers.  A window in samples is the rational k / WinDen, held as its   *)
(* numerator k.  A fractional count is held as its numerator over          *)
(* Scale = 2 * WinDen^2, the common denominator of the border weights.     *)
(* On this grid every float operation of the source is exact, so the       *)
(* rationals of the model are the floats of the program.                   *)
(***************************************************************************)
EXTENDS Integers, Sequences, FiniteSets, TLC

VARIABLES op, args, ret, t_max, histogram, start_j, pending, workers

vars == <<op, args, ret, t_max, histogram, start_j, pending, workers>>

\* The run of _gaussian_kernel in flight: the output array, the lower-bound
\* cursor, the iterations of the prange not handed out yet, and the frame of
\* each worker.
kernel_vars == <<histogram, start_j, pending, workers>>

(***************************** bounds **************************************)
\* Longest spike train (number of spikes).
MaxLen == 3
\* Largest sample index of a spike.
MaxSample == 3
\* Denominator of the window grid: windows are multiples of 1/WinDen sample.
WinDen == 4
\* Largest window numerator (MaxWin / WinDen samples).
MaxWin == 10

\* Longest spike vector of a sorting (number of spikes, all units together).
MaxVecLen == 2
\* Largest sample index of a spike of a spike vector.
MaxVecSample == 2
\* Largest unit index of a sorting.
MaxLabel == 1
\* Largest integer coincidence window of the matrix sweep (samples).
MaxMatWin == 1

\* Longest spike train of the short inputs: a train outside the data model,
\* the second train of a cross-contamination estimate.
MaxShortLen == 2
\* Utils.sampling_frequency * 1e-3: samples per millisecond of the recording.
SamplesPerMs == 2
\* Largest refractory-period bound, in 1/WinDen ms.
MaxRefractory == 5

\* Most events handed to the gaussian kernel.
MaxEvents == 2
\* Most points of the time axis of the gaussian histogram.
MaxAxis == 2
\* Largest truncate * sigma of the gaussian kernel (samples).
MaxHalfWidth == 1

\* Largest ms_before, ms_after and margin of get_templates, in 1/WinDen ms.
MaxMs == 4
\* Most channels of the recording.
MaxChannels == 2

(***************************** numbers *************************************)
Scale == 2 * WinDen * WinDen

Abs(x) == IF x < 0 THEN -x ELSE x

Min(a, b) == IF a <= b THEN a ELSE b

\* math.floor and math.ceil of k / WinDen.
Floor(k) == k \div WinDen

Ceil(k) == -((-k) \div WinDen)

RECURSIVE GCD(_, _)
GCD(a, b) == IF b = 0 THEN Abs(a) ELSE GCD(b, a % b)

\* The rational n/d (d # 0) in lowest terms with a positive denominator.
Rat(n, d) ==
    LET g == GCD(Abs(n), Abs(d))
        s == IF d < 0 THEN -1 ELSE 1
    IN  <<(s * n) \div g, (s * d) \div g>>

\* Comparison and arithmetic of rationals with positive denominators.
RatLess(p, q) == p[1] * q[2] < q[1] * p[2]

RatMul(p, q) == Rat(p[1] * q[1], p[2] * q[2])

RatSub(p, q) == Rat(p[1] * q[2] - q[1] * p[2], p[2] * q[2])

(***************************** inputs **************************************)
\* Ascending (not necessarily strictly) trains of at most n spikes in vals.
AscendingTrains(n, vals) ==
    { s \in UNION { [1..m -> vals] : m \in 0..n } :
        \A i \in 1..(Len(s) - 1) : s[i] <= s[i + 1] }

SpikeTrains == AscendingTrains(MaxLen, 0..MaxSample)

\* Trains outside the data model: not ascending, or with a negative sample.
InvalidTrains ==
    UNION { [1..m -> (-1)..MaxSample] : m \in 1..MaxShortLen }
        \ AscendingTrains(MaxShortLen, 0..MaxSample)

\* The ascending trains of at most MaxShortLen spikes.
ShortTrains == AscendingTrains(MaxShortLen, 0..MaxSample)

\* The ascending trains of at most one spike.
BriefTrains == { s \in ShortTrains : Len(s) <= 1 }

\* Window numerators: negative, zero, fractional and integer windows.
Windows == (-1)..MaxWin

PositiveWindows == 1..MaxWin

\* Spike vectors: entries (sample_ind, unit_ind), ascending in sample_ind.
\* A sorting with no spike has no largest label: vectors are not empty.
SpikeVectors ==
    { v \in UNION { [1..m -> [sample_ind : 0..MaxVecSample, unit_ind : 0..MaxLabel]]
                     : m \in 1..MaxVecLen } :
        \A i \in 1..(Len(v) - 1) : v[i].sample_ind <= v[i + 1].sample_ind }

\* Spike vectors outside the data model: sample indices not ascending, or
\* negative.
InvalidVectors ==
    UNION { [1..m -> [sample_ind : (-1)..MaxVecSample, unit_ind : 0..MaxLabel]]
              : m \in 1..MaxVecLen } \ SpikeVectors

OneSpikeVectors == { v \in SpikeVectors : Len(v) = 1 }

MatrixWindows == 0..MaxMatWin

\* Refractory periods (t_c, t_r) in 1/WinDen ms with 0 <= t_c < t_r.
RefractoryPeriods ==
    { r \in (0..MaxRefractory) \X (0..MaxRefractory) : r[1] < r[2] }

\* Every pair of bounds, t_c >= t_r included.
AnyPeriods == (0..MaxRefractory) \X (0..MaxRefractory)

NoArgs == <<>>

NoRet == [kind |-> "none"]

Value(v) == [kind |-> "value", value |-> v]

Raise(e) == [kind |-> "raise", error |-> e]

(******************** _get_border_probabilities ****************************)
\* Weight (over Scale) of a pair exactly border_high apart.
\* (mutant: the distance is taken from border_low instead of border_high)
p_high_mut_floor(max_time) ==
    LET x == max_time - Floor(max_time) * WinDen + WinDen IN x * x

p_high(max_time) ==
    LET x == max_time - Ceil(max_time) * WinDen + WinDen IN x * x

\* Weight (over Scale) of a pair exactly border_low apart.
\* (mutant: the linear term of p_low is dropped)
p_low_mut_nolinear(max_time) ==
    LET f == max_time - Floor(max_time) * WinDen
        p == WinDen * WinDen - f * f
    IN  IF Floor(max_time) = 0
        THEN p - (WinDen - max_time) * (WinDen - max_time)
        ELSE p

p_low(max_time) ==
    LET f == max_time - Floor(max_time) * WinDen
        p == WinDen * WinDen - f * f + 2 * WinDen * f
    IN  IF Floor(max_time) = 0
        THEN p - (WinDen - max_time) * (WinDen - max_time)
        ELSE p

_get_border_probabilities(max_time) ==
    [border_low  |-> Floor(max_time),
     border_high |-> Ceil(max_time),
     p_low       |-> p_low(max_time),
     p_high      |-> p_high(max_time)]

\* The weighted total returned by both counting functions.
Weighted(b, c) == c.n * Scale + b.p_high * c.high + b.p_low * c.low

ZeroCounts == [n |-> 0, low |-> 0, high |-> 0]

(************************ compute_nb_violations ****************************)
\* The if/elif/else of the inner loop body, for a pair diff apart (diff is
\* at most border_high here).
ViolationTally(diff, b, c) ==
    IF diff = b.border_high THEN [c EXCEPT !.high = @ + 1]
    ELSE IF diff = b.border_low THEN [c EXCEPT !.low = @ + 1]
    ELSE [c EXCEPT !.n = @ + 1]

\* The break of the inner loop: the later spikes are further still.
\* (mutant: the loop never breaks)
ViolationBreak_mut_never(diff, b) == FALSE

\* (mutant: the loop also breaks at a pair exactly border_high apart)
ViolationBreak_mut_ge(diff, b) == diff >= b.border_high

ViolationBreak(diff, b) == diff > b.border_high

\* for j in range(i+1, len(spike_train)), from index j on (0-based).
RECURSIVE ViolationInner(_, _, _, _, _)
ViolationInner(spike_train, i, j, b, c) ==
    IF j >= Len(spike_train) THEN c
    ELSE LET diff == spike_train[j + 1] - spike_train[i + 1] IN
         IF ViolationBreak(diff, b) THEN c
         ELSE ViolationInner(spike_train, i, j + 1, b, ViolationTally(diff, b, c))

\* for i in range(len(spike_train)-1), from index i on (0-based).
RECURSIVE ViolationOuter(_, _, _, _)
ViolationOuter(spike_train, i, b, c) ==
    IF i >= Len(spike_train) - 1 THEN c
    ELSE ViolationOuter(spike_train, i + 1, b,
                        ViolationInner(spike_train, i, i + 1, b, c))

compute_nb_violations(spike_train, max_time) ==
    IF max_time <= 0 THEN 0
    ELSE LET b == _get_border_probabilities(max_time)
         IN  Weighted(b, ViolationOuter(spike_train, 0, b, ZeroCounts))

(************************ compute_nb_coincidence ***************************)
\* The if/elif/else of the inner loop body, for a pair with |diff| at most
\* border_high.
\* (mutant: the sign of diff is kept when it is compared with border_high)
CoincidenceTally_mut_signed(diff, b, c) ==
    IF diff = b.border_high THEN [c EXCEPT !.high = @ + 1]
    ELSE IF Abs(diff) = b.border_low THEN [c EXCEPT !.low = @ + 1]
    ELSE [c EXCEPT !.n = @ + 1]

\* (mutant: every pair up to border_low apart takes the border_low weight)
CoincidenceTally_mut_le(diff, b, c) ==
    IF Abs(diff) = b.border_high THEN [c EXCEPT !.high = @ + 1]
    ELSE IF Abs(diff) <= b.border_low THEN [c EXCEPT !.low = @ + 1]
    ELSE [c EXCEPT !.n = @ + 1]

CoincidenceTally(diff, b, c) ==
    IF Abs(diff) = b.border_high THEN [c EXCEPT !.high = @ + 1]
    ELSE IF Abs(diff) = b.border_low THEN [c EXCEPT !.low = @ + 1]
    ELSE [c EXCEPT !.n = @ + 1]

\* for j in range(start_j, len(spike_train2)), from index j on (0-based).
\* The range is fixed when the loop starts; start_j only counts the skips.
RECURSIVE CoincidenceInner(_, _, _, _, _, _)
CoincidenceInner(spike_train1, spike_train2, i, j, b, st) ==
    IF j >= Len(spike_train2) THEN st
    ELSE LET diff == spike_train1[i + 1] - spike_train2[j + 1] IN
         IF diff > b.border_high
         THEN CoincidenceInner(spike_train1, spike_train2, i, j + 1, b,
                               [st EXCEPT !.start_j = @ + 1])
         ELSE IF diff < -b.border_high THEN st
         ELSE CoincidenceInner(spike_train1, spike_train2, i, j + 1, b,
                               [st EXCEPT !.c = CoincidenceTally(diff, b, @)])

\* for i in range(len(spike_train1)), from index i on (0-based).
RECURSIVE CoincidenceOuter(_, _, _, _, _)
CoincidenceOuter(spike_train1, spike_train2, i, b, st) ==
    IF i >= Len(spike_train1) THEN st
    ELSE CoincidenceOuter(spike_train1, spike_train2, i + 1, b,
            CoincidenceInner(spike_train1, spike_train2, i, st.start_j, b, st))

\* (mutant: the lower bound start_j starts past the first spike of train 2)
compute_nb_coincidence_mut_start(spike_train1, spike_train2, max_time) ==
    IF max_time <= 0 THEN 0
    ELSE LET b == _get_border_probabilities(max_time)
         IN  Weighted(b, CoincidenceOuter(spike_train1, spike_train2, 0, b,
                                          [start_j |-> 1, c |-> ZeroCounts]).c)

compute_nb_coincidence(spike_train1, spike_train2, max_time) ==
    IF max_time <= 0 THEN 0
    ELSE LET b == _get_border_probabilities(max_time)
         IN  Weighted(b, CoincidenceOuter(spike_train1, spike_train2, 0, b,
                                          [start_j |-> 0, c |-> ZeroCounts]).c)

(********************** compute_coincidence_matrix *************************)
\* np.max of a non-empty array.
RECURSIVE ArrayMax(_, _)
ArrayMax(a, n) ==
    IF n = 1 THEN a[1]
    ELSE LET m == ArrayMax(a, n - 1) IN IF a[n] > m THEN a[n] ELSE m

\* np.zeros((n_units1, n_units2)).
Zeros(n_units1, n_units2) ==
    [c \in (0..(n_units1 - 1)) \X (0..(n_units2 - 1)) |-> 0]

\* The tests of the inner loop body on diff: skip a spike of sorting 2 that
\* is too early, stop at one that is too late, count the others.
\* (mutant: the sweep stops at the first spike of sorting 2 that is later
\* than the spike of sorting 1)
MatrixStep_mut_break(diff, max_time) ==
    IF diff > max_time THEN "continue"
    ELSE IF diff < 0 THEN "break"
    ELSE "count"

\* (mutant: a pair one sample beyond max_time is still counted)
MatrixStep_mut_wide(diff, max_time) ==
    IF diff > max_time + 1 THEN "continue"
    ELSE IF diff < -(max_time + 1) THEN "break"
    ELSE "count"

\* (mutant: a spike of sorting 2 exactly max_time before the spike of
\* sorting 1 is skipped)
MatrixStep_mut_strict(diff, max_time) ==
    IF diff >= max_time THEN "continue"
    ELSE IF diff < -max_time THEN "break"
    ELSE "count"

MatrixStep(diff, max_time) ==
    IF diff > max_time THEN "continue"
    ELSE IF diff < -max_time THEN "break"
    ELSE "count"

\* for j in range(start_j, len(spike_times2)), from index j on (0-based);
\* a holds the five arguments of the call.
RECURSIVE MatrixInner(_, _, _, _)
MatrixInner(a, i, j, st) ==
    IF j >= Len(a.spike_times2) THEN st
    ELSE LET diff == a.spike_times1[i + 1] - a.spike_times2[j + 1]
             step == MatrixStep(diff, a.max_time)
             cell == <<a.spike_labels1[i + 1], a.spike_labels2[j + 1]>>
         IN  IF step = "continue"
             THEN MatrixInner(a, i, j + 1, [st EXCEPT !.start_j = @ + 1])
             ELSE IF step = "break" THEN st
             ELSE MatrixInner(a, i, j + 1, [st EXCEPT !.m[cell] = @ + 1])

\* for i in range(len(spike_times1)), from index i on (0-based).
RECURSIVE MatrixOuter(_, _, _)
MatrixOuter(a, i, st) ==
    IF i >= Len(a.spike_times1) THEN st
    ELSE MatrixOuter(a, i + 1, MatrixInner(a, i, st.start_j, st))

MatrixArgs(spike_times1, spike_labels1, spike_times2, spike_labels2, max_time) ==
    [spike_times1 |-> spike_times1, spike_labels1 |-> spike_labels1,
     spike_times2 |-> spike_times2, spike_labels2 |-> spike_labels2,
     max_time |-> max_time]

compute_coincidence_matrix(a) ==
    LET n_units1 == ArrayMax(a.spike_labels1, Len(a.spike_labels1)) + 1
        n_units2 == ArrayMax(a.spike_labels2, Len(a.spike_labels2)) + 1
    IN  MatrixOuter(a, 0, [start_j |-> 0, m |-> Zeros(n_units1, n_units2)]).m

\* spike_vector['sample_ind'] and spike_vector['unit_ind'].
SampleInd(spike_vector) == [i \in 1..Len(spike_vector) |-> spike_vector[i].sample_ind]

UnitInd(spike_vector) == [i \in 1..Len(spike_vector) |-> spike_vector[i].unit_ind]

compute_coincidence_matrix_from_vector(spike_vector1, spike_vector2, window) ==
    compute_coincidence_matrix(
        MatrixArgs(SampleInd(spike_vector1), UnitInd(spike_vector1),
                   SampleInd(spike_vector2), UnitInd(spike_vector2), window))

(********************** compute_similarity_matrix **************************)
\* Float results that are not rationals: 0/0 and x/0.
NaN == <<0, 0>>

Inf(sign) == <<sign, 0>>

One == <<1, 1>>

Sign(x) == IF x < 0 THEN -1 ELSE IF x > 0 THEN 1 ELSE 0

\* numpy's true division of the rationals p by q: x/0 is an infinity and
\* 0/0 is nan, with a warning and no exception.
NpDivide(p, q) ==
    IF p[2] = 0 \/ q[2] = 0
    THEN (IF p = NaN \/ q = NaN \/ (p[2] = 0 /\ q[2] = 0) THEN NaN
          ELSE IF q[2] = 0 THEN <<0, 1>>
          ELSE Inf(IF q[1] < 0 THEN -p[1] ELSE p[1]))
    ELSE IF q[1] = 0 THEN (IF p[1] = 0 THEN NaN ELSE Inf(Sign(p[1])))
    ELSE Rat(p[1] * q[2], p[2] * q[1])

\* p - q on the same values (inf - inf is nan).
NpMinus(p, q) ==
    IF p = NaN \/ q = NaN THEN NaN
    ELSE IF p[2] = 0 /\ q[2] = 0 THEN (IF p = q THEN NaN ELSE p)
    ELSE IF p[2] = 0 THEN p
    ELSE IF q[2] = 0 THEN Inf(-q[1])
    ELSE Rat(p[1] * q[2] - q[1] * p[2], p[2] * q[2])

\* The shape of a matrix held as a function of its cells.
Shape(m) ==
    <<Cardinality({c[1] : c \in DOMAIN m}), Cardinality({c[2] : c \in DOMAIN m})>>

\* One cell of the returned matrix: coincidence count c, spike counts n1
\* and n2 of the two units, window2 = 2 * window, T = Utils.t_max.
\* (mutant: the rescaling divides by 1 + expected)
SimilarityEntry_mut_plus(c, n1, n2, window2, T) ==
    LET minimum_n_spikes == Min(n1, n2)
        similarity == NpDivide(<<c, 1>>, <<minimum_n_spikes, 1>>)
        expected == NpDivide(Rat(n1 * n2 * (window2 + 1), T), <<minimum_n_spikes, 1>>)
    IN  NpDivide(NpMinus(similarity, expected),
                 NpMinus(One, NpMinus(<<0, 1>>, expected)))

SimilarityEntry(c, n1, n2, window2, T) ==
    LET minimum_n_spikes == Min(n1, n2)
        similarity == NpDivide(<<c, 1>>, <<minimum_n_spikes, 1>>)
        expected == NpDivide(Rat(n1 * n2 * (window2 + 1), T), <<minimum_n_spikes, 1>>)
    IN  NpDivide(NpMinus(similarity, expected), NpMinus(One, expected))

\* The condition of the assert at entry.
\* (mutant: only the number of rows is compared)
ShapeMatches_mut_rows(coincidence_matrix, n_spikes1, n_spikes2) ==
    Shape(coincidence_matrix)[1] = Len(n_spikes1)

ShapeMatches(coincidence_matrix, n_spikes1, n_spikes2) ==
    Shape(coincidence_matrix) = <<Len(n_spikes1), Len(n_spikes2)>>

\* n_spikes1 and n_spikes2 are sequences indexed from unit 0.
compute_similarity_matrix(coincidence_matrix, n_spikes1, n_spikes2, window2, T) ==
    IF ~ShapeMatches(coincidence_matrix, n_spikes1, n_spikes2)
    THEN Raise("AssertionError")
    ELSE Value([c \in DOMAIN coincidence_matrix |->
                   SimilarityEntry(coincidence_matrix[c], n_spikes1[c[1] + 1],
                                   n_spikes2[c[2] + 1], window2, T)])

(************************* estimate_contamination **************************)
\* refractory_period[k] * 1e-3 * Utils.sampling_frequency: a period of
\* ms / WinDen milliseconds, in samples (numerator over WinDen).
ToSamples(ms) == ms * SamplesPerMs

\* A contamination is held as the rational q it is 1 - sqrt(q) of:
\* 1.0 is q = 0 and 0.0 is q = 1.
OneMinusSqrt(q) == [one_minus_sqrt |-> q]

\* D = 1 - n_v * (T - 2*N*t_c) / (N**2 * (t_r - t_c)), where n_v is a count
\* over Scale and t_c, t_r are windows over WinDen; a zero divisor raises.
\* (mutant: an empty train is given the determinant 1 instead of dividing)
Determinant_mut_guard(n_v, N, T, t_c, t_r) ==
    IF N = 0 THEN Value(<<1, 1>>)
    ELSE IF N * N * (t_r - t_c) = 0 THEN Raise("ZeroDivisionError")
    ELSE Value(Rat(Scale * N * N * (t_r - t_c) - n_v * (T * WinDen - 2 * N * t_c),
                   Scale * N * N * (t_r - t_c)))

Determinant(n_v, N, T, t_c, t_r) ==
    IF N * N * (t_r - t_c) = 0 THEN Raise("ZeroDivisionError")
    ELSE Value(Rat(Scale * N * N * (t_r - t_c) - n_v * (T * WinDen - 2 * N * t_c),
                   Scale * N * N * (t_r - t_c)))

\* T is Utils.t_max.
estimate_contamination(spike_train, refractory_period, T) ==
    LET t_c == ToSamples(refractory_period[1])
        t_r == ToSamples(refractory_period[2])
        n_v == compute_nb_violations(spike_train, t_r)
        N   == Len(spike_train)
        D   == Determinant(n_v, N, T, t_c, t_r)
    IN  IF D.kind = "raise" THEN D
        ELSE IF D.value[1] < 0 THEN Value(OneMinusSqrt(<<0, 1>>))
        ELSE Value(OneMinusSqrt(D.value))

(********************** estimate_cross_contamination ***********************)
\* The default of the parameter limit, 0.3.
DefaultLimit == <<3, 10>>

MinusInfinity == [kind |-> "-inf"]

\* 1 - ((n_violations * T) / (2*N1*N2 * t_r) - 1) / (C1 - 1) if C1 != 1.0
\* else -np.inf.  The finite estimate is held as the rational
\* x = (n_violations * T) / (2*N1*N2 * t_r) and C1: it is 1 - (x - 1)/(C1 - 1).
\* (mutant: the sentinel is missing and the division is always made)
CrossEstimation_mut_nosentinel(C1, n_violations, T, N1, N2, t_r) ==
    IF 2 * N1 * N2 * t_r = 0 \/ C1.one_minus_sqrt[1] = 0
    THEN Raise("ZeroDivisionError")
    ELSE Value([kind |-> "finite",
                x |-> Rat(n_violations * T * WinDen, Scale * 2 * N1 * N2 * t_r),
                C1 |-> C1])

CrossEstimation(C1, n_violations, T, N1, N2, t_r) ==
    IF C1.one_minus_sqrt[1] # 0
    THEN (IF 2 * N1 * N2 * t_r = 0 THEN Raise("ZeroDivisionError")
          ELSE Value([kind |-> "finite",
                      x |-> Rat(n_violations * T * WinDen, Scale * 2 * N1 * N2 * t_r),
                      C1 |-> C1]))
    ELSE Value(MinusInfinity)

\* n*p < 30 for n = N1N2 * ((1 - C1) * limit + C1) and the rational p,
\* decided exactly: with s = sqrt(q) and C1 = 1 - s, n*p = K * (1 - s*(1 - limit))
\* where K = N1N2 * p, so for K > 0 the test is s*(1 - limit) > 1 - 30/K.
NPBelow30(N1N2, C1, limit, p) ==
    LET K == RatMul(<<N1N2, 1>>, p)
        q == C1.one_minus_sqrt
        l == RatSub(One, limit)
        lhs == RatMul(q, RatMul(l, l))
    IN  IF K[1] = 0 THEN TRUE
        ELSE LET g == RatSub(One, Rat(30 * K[2], K[1])) IN
             IF K[1] > 0
             THEN g[1] < 0 \/ RatLess(RatMul(g, g), lhs)
             ELSE g[1] >= 0 /\ RatLess(lhs, RatMul(g, g))

\* The statistical test: the law and its parameters (the value of the cdf
\* is not modelled).  math.sqrt raises on a negative variance n*p*(1-p),
\* which with n*p >= 30 is the case p > 1.
CrossPValue(n_violations, N1N2, C1, limit, p) ==
    LET test == [k |-> n_violations, n |-> [N1N2 |-> N1N2, C1 |-> C1, limit |-> limit],
                 p |-> p]
    IN  IF NPBelow30(N1N2, C1, limit, p)
        THEN Value([law |-> "binom"] @@ test)
        ELSE IF RatLess(One, p) THEN Raise("ValueError")
        ELSE Value([law |-> "norm"] @@ test)

estimate_cross_contamination(spike_train1, spike_train2, refractory_period, limit, T) ==
    LET N1 == Len(spike_train1)
        N2 == Len(spike_train2)
        C1 == estimate_contamination(spike_train1, refractory_period, T)
        t_c == ToSamples(refractory_period[1])
        t_r == ToSamples(refractory_period[2])
        n_violations == compute_nb_coincidence(spike_train1, spike_train2, t_r)
                        - compute_nb_coincidence(spike_train1, spike_train2, t_c)
        estimation == CrossEstimation(C1.value, n_violations, T, N1, N2, t_r)
        p_value == CrossPValue(n_violations, N1 * N2, C1.value, limit,
                               Rat(2 * t_r, WinDen * T))
    IN  IF C1.kind = "raise" THEN C1
        ELSE IF estimation.kind = "raise" THEN estimation
        ELSE IF p_value.kind = "raise" THEN p_value
        ELSE Value(<<estimation.value, p_value.value>>)

(***************************** calls ***************************************)
Idle == op = "idle"

\* A call of each function, its arguments drawn from the given sets.
CallViolations(trains, windows) ==
    /\ Idle
    /\ \E s \in trains, w \in windows :
         /\ op' = "compute_nb_violations"
         /\ args' = [spike_train |-> s, max_time |-> w]
         /\ ret' = Value(compute_nb_violations(s, w))
    /\ UNCHANGED <<t_max, kernel_vars>>

CallCoincidence(trains1, trains2, windows) ==
    /\ Idle
    /\ \E s1 \in trains1, s2 \in trains2, w \in windows :
         /\ op' = "compute_nb_coincidence"
         /\ args' = [spike_train1 |-> s1, spike_train2 |-> s2, max_time |-> w]
         /\ ret' = Value(compute_nb_coincidence(s1, s2, w))
    /\ UNCHANGED <<t_max, kernel_vars>>

CallMatrix(vectors1, vectors2, windows) ==
    /\ Idle
    /\ \E v1 \in vectors1, v2 \in vectors2, w \in windows :
         /\ op' = "compute_coincidence_matrix"
         /\ args' = [spike_vector1 |-> v1, spike_vector2 |-> v2, window |-> w]
         /\ ret' = Value(compute_coincidence_matrix_from_vector(v1, v2, w))
    /\ UNCHANGED <<t_max, kernel_vars>>

CallContamination(trains, periods) ==
    /\ Idle
    /\ \E s \in trains, r \in periods :
         /\ op' = "estimate_contamination"
         /\ args' = [spike_train |-> s, refractory_period |-> r]
         /\ ret' = estimate_contamination(s, r, t_max)
    /\ UNCHANGED <<t_max, kernel_vars>>

CallCrossContamination(trains1, trains2, periods) ==
    /\ Idle
    /\ \E s1 \in trains1, s2 \in trains2, r \in periods :
         /\ op' = "estimate_cross_contamination"
         /\ args' = [spike_train1 |-> s1, spike_train2 |-> s2,
                     refractory_period |-> r, limit |-> DefaultLimit]
         /\ ret' = estimate_cross_contamination(s1, s2, r, DefaultLimit, t_max)
    /\ UNCHANGED <<t_max, kernel_vars>>

\* The calls on the inputs the functions are written for.
Call_compute_nb_violations == CallViolations(SpikeTrains, Windows)

Call_compute_nb_coincidence == CallCoincidence(SpikeTrains, SpikeTrains, Windows)

Call_compute_coincidence_matrix == CallMatrix(SpikeVectors, SpikeVectors, MatrixWindows)

Call_estimate_contamination == CallContamination(SpikeTrains, RefractoryPeriods)

Call_estimate_cross_contamination ==
    CallCrossContamination(SpikeTrains, ShortTrains, RefractoryPeriods)

\* The number of spikes of each unit 0..max label of a spike vector.
SpikeCounts(v) ==
    [u \in 1..(ArrayMax(UnitInd(v), Len(v)) + 1) |->
        Cardinality({i \in 1..Len(v) : v[i].unit_ind = u - 1})]

\* A sorting is compared with itself: the matrix handed over is the
\* coincidence matrix of its spike vector against itself, window is the
\* default -0.5 or the window of the matrix, and the spike counts of the
\* second side are those of the sorting or, by a caller's mistake, one unit
\* longer.
Call_compute_similarity_matrix ==
    /\ Idle
    /\ \E v \in SpikeVectors, w \in MatrixWindows :
       \E window2 \in {-1, 2 * w}, n2 \in {SpikeCounts(v), Append(SpikeCounts(v), 1)} :
         LET m == compute_coincidence_matrix_from_vector(v, v, w) IN
         /\ op' = "compute_similarity_matrix"
         /\ args' = [coincidence_matrix |-> m, n_spikes1 |-> SpikeCounts(v),
                     n_spikes2 |-> n2, window2 |-> window2,
                     spike_vector |-> v, max_time |-> w]
         /\ ret' = compute_similarity_matrix(m, SpikeCounts(v), n2, window2, t_max)
    /\ UNCHANGED <<t_max, kernel_vars>>

\* The calls on inputs outside the data model: a train or a spike vector
\* that is not ascending or holds a negative sample, a refractory period
\* with t_c >= t_r.
Invalid_compute_nb_violations == CallViolations(InvalidTrains, PositiveWindows)

Invalid_compute_nb_coincidence ==
    \/ CallCoincidence(InvalidTrains, BriefTrains, PositiveWindows)
    \/ CallCoincidence(BriefTrains, InvalidTrains, PositiveWindows)

Invalid_compute_coincidence_matrix ==
    \E v \in InvalidVectors : CallMatrix({v}, {v} \cup OneSpikeVectors, MatrixWindows)

Invalid_estimate_contamination ==
    \/ CallContamination(InvalidTrains, AnyPeriods)
    \/ CallContamination(ShortTrains, AnyPeriods \ RefractoryPeriods)

Invalid_estimate_cross_contamination ==
    \/ CallCrossContamination(InvalidTrains, BriefTrains, AnyPeriods)
    \/ CallCrossContamination(ShortTrains, ShortTrains, AnyPeriods \ RefractoryPeriods)

\* The caller takes the result; the library keeps nothing.
Return ==
    /\ ~Idle
    /\ op' = "idle"
    /\ args' = NoArgs
    /\ ret' = NoRet
    /\ UNCHANGED <<t_max, kernel_vars>>

InitIdle ==
    /\ op = "idle"
    /\ args = NoArgs
    /\ ret = NoRet
    /\ histogram = <<>>
    /\ start_j = <<>>
    /\ pending = {}
    /\ workers = <<>>

(**************************** _gaussian_kernel *****************************)
\* The kernel is modelled step by step: its outer loop is a numba.prange, so
\* the iterations i run on parallel workers and the steps of different
\* iterations interleave.  Times are whole samples; width is truncate*sigma.
\* A term exp(-0.5*((e - t)/sigma)^2) depends on |e - t| only, so the sum
\* held by histogram[i] is kept as the number of terms of each distance
\* 0..width; the final division by sigma*sqrt(2*pi) is a constant factor.
Workers == {"w1", "w2"}

\* The time axis: strictly ascending sample times.
TimeAxes ==
    { t \in UNION { [1..m -> 0..MaxSample] : m \in 1..MaxAxis } :
        \A i \in 1..(Len(t) - 1) : t[i] < t[i + 1] }

\* The ordered event timings.
EventTrains == AscendingTrains(MaxEvents, 0..MaxSample)

HalfWidths == 0..MaxHalfWidth

\* The variable start_j of the source is one cell written by every
\* iteration.  numba may also compile a scalar updated by += in a prange
\* body as a reduction, with one copy per worker that starts at 0.  Both
\* builds are modelled: start_j holds the one shared cell or one cell per
\* worker.
CursorCells == { {"shared"}, Workers }

Cell(w) == IF "shared" \in DOMAIN start_j THEN "shared" ELSE w

IdleFrame == [pc |-> "idle", i |-> 0, j |-> 0, tmp |-> 0]

WorkersIdle == \A w \in Workers : workers[w].pc = "idle"

\* np.zeros(t_axis.shape), each element an empty sum.
EmptySum(width) == [d \in 0..width |-> 0]

\* The smallest iteration not handed out yet.
NextIteration == CHOOSE i \in pending : \A k \in pending : i <= k

Call__gaussian_kernel ==
    /\ Idle
    /\ \E events \in EventTrains, t_axis \in TimeAxes, width \in HalfWidths,
          cells \in CursorCells :
         /\ op' = "_gaussian_kernel"
         /\ args' = [events |-> events, t_axis |-> t_axis, width |-> width]
         /\ histogram' = [i \in 1..Len(t_axis) |-> EmptySum(width)]
         /\ start_j' = [c \in cells |-> 0]
         /\ pending' = 1..Len(t_axis)
    /\ workers' = [w \in Workers |-> IdleFrame]
    /\ ret' = NoRet
    /\ UNCHANGED t_max

\* for i in numba.prange(len(t_axis)): a free worker takes the next
\* iteration; each worker handles its iterations in ascending order.
PrangeTake(w) ==
    /\ op = "_gaussian_kernel"
    /\ workers[w].pc = "idle"
    /\ pending # {}
    /\ workers' = [workers EXCEPT ![w] = [@ EXCEPT !.pc = "slice", !.i = NextIteration]]
    /\ pending' = pending \ {NextIteration}
    /\ UNCHANGED <<op, args, ret, t_max, histogram, start_j>>

\* events[start_j:]: the slice is taken once, when the inner loop starts.
KernelSlice(w) ==
    /\ op = "_gaussian_kernel"
    /\ workers[w].pc = "slice"
    /\ workers' = [workers EXCEPT ![w] = [@ EXCEPT !.pc = "loop", !.j = start_j[Cell(w)]]]
    /\ UNCHANGED <<op, args, ret, t_max, histogram, start_j, pending>>

\* One turn of the inner loop, on the event at index j (0-based) of events.
\* The skip reads start_j here and writes it in KernelStore: += on a
\* variable is a read and a write.
KernelStep(w) ==
    /\ op = "_gaussian_kernel"
    /\ workers[w].pc = "loop"
    /\ LET f == workers[w]
           t == args.t_axis[f.i]
       IN  IF f.j >= Len(args.events)
           THEN /\ workers' = [workers EXCEPT ![w] = IdleFrame]
                /\ UNCHANGED histogram
           ELSE LET e == args.events[f.j + 1] IN
                IF e < t - args.width
                THEN /\ workers' = [workers EXCEPT ![w] =
                                       [@ EXCEPT !.pc = "store", !.tmp = start_j[Cell(w)]]]
                     /\ UNCHANGED histogram
                ELSE IF e > t + args.width
                THEN /\ workers' = [workers EXCEPT ![w] = IdleFrame]
                     /\ UNCHANGED histogram
                ELSE /\ histogram' = [histogram EXCEPT ![f.i][Abs(e - t)] = @ + 1]
                     /\ workers' = [workers EXCEPT ![w] = [@ EXCEPT !.j = @ + 1]]
    /\ UNCHANGED <<op, args, ret, t_max, start_j, pending>>

\* start_j += 1, the write; then continue with the next event of the slice.
KernelStore(w) ==
    /\ op = "_gaussian_kernel"
    /\ workers[w].pc = "store"
    /\ start_j' = [start_j EXCEPT ![Cell(w)] = workers[w].tmp + 1]
    /\ workers' = [workers EXCEPT ![w] = [@ EXCEPT !.pc = "loop", !.j = @ + 1]]
    /\ UNCHANGED <<op, args, ret, t_max, histogram, pending>>

\* return histogram / (sigma * np.sqrt(2*np.pi)), once every iteration ran.
KernelReturn ==
    /\ op = "_gaussian_kernel"
    /\ ret = NoRet
    /\ pending = {}
    /\ WorkersIdle
    /\ ret' = Value(histogram)
    /\ UNCHANGED <<op, args, t_max, kernel_vars>>

\* The caller takes the histogram; the frames of the run are gone.
KernelDone ==
    /\ op = "_gaussian_kernel"
    /\ ret # NoRet
    /\ op' = "idle"
    /\ args' = NoArgs
    /\ ret' = NoRet
    /\ histogram' = <<>>
    /\ start_j' = <<>>
    /\ pending' = {}
    /\ workers' = <<>>
    /\ UNCHANGED t_max

(******************** specification: gaussian kernel ***********************)
InitKernel == InitIdle /\ t_max = MaxSample + 1

NextKernel ==
    \/ Call__gaussian_kernel
    \/ \E w \in Workers : PrangeTake(w)
    \/ \E w \in Workers : KernelSlice(w)
    \/ \E w \in Workers : KernelStep(w)
    \/ \E w \in Workers : KernelStore(w)
    \/ KernelReturn
    \/ KernelDone

SpecKernel == InitKernel /\ [][NextKernel]_vars

(********************* MonoSortingModule.get_templates *********************)
\* Durations in ms are multiples of 1/WinDen, held as their numerators; the
\* recording has SamplesPerMs samples per ms, so a duration of k/WinDen ms
\* is k*SamplesPerMs/WinDen samples.  Only the shape of the templates is
\* modelled: (n_units, n_samples, n_channels).

\* int(x) of the non-negative x = num/den.
Trunc(num, den) == num \div den

\* round(x) of the non-negative x = num/den: to nearest, ties to even.
RoundHalfEven(num, den) ==
    LET q == num \div den
        r == num % den
    IN  IF 2 * r < den THEN q
        ELSE IF 2 * r > den THEN q + 1
        ELSE IF q % 2 = 0 THEN q ELSE q + 1

\* The waveform extractor is an external library: it turns ms_before and
\* ms_after into whole numbers of samples, by truncation or by rounding.
ExtractorRoundings == {"trunc", "round"}

ExtractorSamples(ms, rounding) ==
    IF rounding = "trunc" THEN Trunc(ms * SamplesPerMs, WinDen)
    ELSE RoundHalfEven(ms * SamplesPerMs, WinDen)

\* wvf_extractor.get_all_templates().shape for the given extraction window.
ExtractedShape(ms_before, ms_after, rounding, n_units, n_channels) ==
    <<n_units,
      ExtractorSamples(ms_before, rounding) + ExtractorSamples(ms_after, rounding),
      n_channels>>

\* A slice bound of Python on an axis of n elements: a negative bound counts
\* from the end, and the bound is clamped to 0..n.
SliceBound(k, n) ==
    LET from_end == IF k < 0 THEN k + n ELSE k
    IN  IF from_end < 0 THEN 0 ELSE IF from_end > n THEN n ELSE from_end

\* len(a[start:stop]) on an axis of n elements.
SliceLen(n, start, stop) ==
    LET lo == SliceBound(start, n)
        hi == SliceBound(stop, n)
    IN  IF hi > lo THEN hi - lo ELSE 0

\* utils.filter(templates, filter_band, axis=1): the transforms keep the
\* shape; np.fft.fft refuses an axis of no sample.
FilteredShape(shape) ==
    IF shape[2] = 0 THEN Raise("ValueError") ELSE Value(shape)

get_templates(ms_before, ms_after, filter_band, margin, return_extractor, rounding, n_units, n_channels) ==
    LET extracted == ExtractedShape(ms_before + margin, ms_after + margin,
                                    rounding, n_units, n_channels)
        templates == IF filter_band # "None" THEN FilteredShape(extracted)
                     ELSE Value(extracted)
        margin_samples == RoundHalfEven(margin * SamplesPerMs, WinDen)
    IN  IF templates.kind = "raise" THEN templates
        ELSE LET shape == <<templates.value[1],
                            SliceLen(templates.value[2], margin_samples, -margin_samples),
                            templates.value[3]>>
             IN  IF return_extractor
                 THEN Value([templates |-> shape, margin |-> margin_samples])
                 ELSE Value([templates |-> shape])

Durations == 0..MaxMs

Call_get_templates ==
    /\ Idle
    /\ \E ms_before \in Durations, ms_after \in Durations, margin \in Durations,
          filter_band \in {"None", "band"}, return_extractor \in BOOLEAN,
          rounding \in ExtractorRoundings,
          n_units \in 1..(MaxLabel + 1), n_channels \in 1..MaxChannels :
         /\ op' = "get_templates"
         /\ args' = [ms_before |-> ms_before, ms_after |-> ms_after,
                     filter_band |-> filter_band, margin |-> margin,
                     return_extractor |-> return_extractor,
                     n_units |-> n_units, n_channels |-> n_channels]
         /\ ret' = get_templates(ms_before, ms_after, filter_band, margin,
                                 return_extractor, rounding, n_units, n_channels)
    /\ UNCHANGED <<t_max, kernel_vars>>

(******************** specification: templates *****************************)
InitTemplates == InitIdle /\ t_max = MaxSample + 1

NextTemplates == Call_get_templates \/ Return

SpecTemplates == InitTemplates /\ [][NextTemplates]_vars

(********************************* filter **********************************)
\* The transforms are computed exactly, on arrays of 1, 2 or 4 samples whose
\* roots of unity are 1, -i, -1 and i: a complex number is the pair
\* <<re, im>> of integers, an array is a function on 0..N-1, and the output
\* of the inverse transform is held as its numerator over N.
FftSizes == {1, 2, 4}

CAdd(z1, z2) == <<z1[1] + z2[1], z1[2] + z2[2]>>

CMul(z1, z2) == <<z1[1] * z2[1] - z1[2] * z2[2], z1[1] * z2[2] + z1[2] * z2[1]>>

\* exp(-2*pi*i*k/4) for an integer k.
FourthRoot(k) ==
    LET r == k % 4
    IN  IF r = 0 THEN <<1, 0>>
        ELSE IF r = 1 THEN <<0, -1>>
        ELSE IF r = 2 THEN <<-1, 0>>
        ELSE <<0, 1>>

\* exp(-2*pi*i*k/N) for N in FftSizes.
Root(N, k) == FourthRoot((4 \div N) * k)

\* Sum over n = 0..m of a[n] * exp(sign * 2*pi*i*k*n/N), sign = -1 or 1.
RECURSIVE TransformSum(_, _, _, _, _)
TransformSum(a, N, k, sign, m) ==
    IF m < 0 THEN <<0, 0>>
    ELSE CAdd(TransformSum(a, N, k, sign, m - 1),
              CMul(a[m], Root(N, -sign * k * m)))

\* An array is computed once, when it is built.
Computed(a) == IF a = a THEN a ELSE a

\* np.fft.fft along the axis.
Fft(a, N) == Computed([k \in 0..(N - 1) |-> TransformSum(a, N, k, -1, N - 1)])

\* N * np.fft.ifft along the axis.
IfftTimesN(a, N) == Computed([n \in 0..(N - 1) |-> TransformSum(a, N, n, 1, N - 1)])

\* (mutant: the magnitude of the real part is kept)
Real_mut_abs(z) == Abs(z[1])

\* .real
Real(z) == z[1]

\* |np.fft.fftfreq(N)[k]| in bins: 0, 1, .., N/2, .., 1.
FreqBin(N, k) == IF 2 * k <= N THEN k ELSE N - k

\* The two regimes of _create_fft_gaussian.
Regime(cutoff_freq) ==
    IF cutoff_freq * 8 > SamplesPerMs * 1000 THEN "time" ELSE "frequency"

\* The values of a Gaussian mask are reals that depend on N and on the
\* cutoff only; the model draws them from two levels, as a table over the
\* frequency bins 0..N/2.  Above sampling_frequency/8 the mask is the
\* magnitude of the transform of a real kernel: not negative and even in
\* the frequency.  Otherwise it is a Gaussian of the frequency: 1 at
\* frequency 0 and not increasing with |frequency|.
MaskLevels == {0, 1}

GaussianTables(N, cutoff_freq) ==
    LET tables == [0..(N \div 2) -> MaskLevels]
    IN  IF Regime(cutoff_freq) = "time" THEN tables
        ELSE { g \in tables :
                 /\ g[0] = 1
                 /\ \A f \in 1..(N \div 2) : g[f] <= g[f - 1] }

_create_fft_gaussian(N, table) == [k \in 0..(N - 1) |-> table[FreqBin(N, k)]]

\* filter on a one-dimensional array of N real samples; high and low are
\* the tables of the two masks.
filter(data, N, high, low) ==
    LET data_fft == Fft([n \in 0..(N - 1) |-> <<data[n], 0>>], N)
        gaussian_highpass == _create_fft_gaussian(N, high)
        gaussian_lowpass == _create_fft_gaussian(N, low)
        filtered_data_fft ==
            Computed([k \in 0..(N - 1) |->
                CMul(data_fft[k], <<gaussian_lowpass[k] - gaussian_highpass[k], 0>>)])
        inverse == IfftTimesN(filtered_data_fft, N)
    IN  [n \in 0..(N - 1) |-> Real(inverse[n])]

Cutoffs == {SamplesPerMs * 125, SamplesPerMs * 250}

Amplitudes == {-1, 1}

Scalars == {-1, 2}

\* a*x + b*y, element by element.
Combine(a, x, b, y, N) == [n \in 0..(N - 1) |-> a * x[n] + b * y[n]]

\* A call on the combination a*x + b*y of two arrays.
Call_filter ==
    /\ Idle
    /\ \E N \in FftSizes, band \in Cutoffs \X Cutoffs, a \in Scalars, b \in Scalars :
       \E x \in [0..(N - 1) -> Amplitudes], y \in [0..(N - 1) -> 0..1],
          high \in GaussianTables(N, band[1]), low \in GaussianTables(N, band[2]) :
         /\ op' = "filter"
         /\ args' = [data |-> Combine(a, x, b, y, N), band |-> band, N |-> N,
                     x |-> x, y |-> y, a |-> a, b |-> b,
                     gaussian_highpass |-> high, gaussian_lowpass |-> low]
         /\ ret' = Value(filter(Combine(a, x, b, y, N), N, high, low))
    /\ UNCHANGED <<t_max, kernel_vars>>

(******************** specification: filter ********************************)
InitFilter == InitIdle /\ t_max = MaxSample + 1

NextFilter == Call_filter \/ Return

SpecFilter == InitFilter /\ [][NextFilter]_vars

(******************** specification: violation counts **********************)
InitViolations == InitIdle /\ t_max = MaxSample + 1

NextViolations == Call_compute_nb_violations \/ Return

SpecViolations == InitViolations /\ [][NextViolations]_vars

(******************** specification: coincidence counts ********************)
InitCoincidence == InitIdle /\ t_max = MaxSample + 1

NextCoincidence == Call_compute_nb_coincidence \/ Return

SpecCoincidence == InitCoincidence /\ [][NextCoincidence]_vars

(******************** specification: coincidence matrix ********************)
InitMatrix == InitIdle /\ t_max = MaxVecSample + 1

NextMatrix == Call_compute_coincidence_matrix \/ Return

SpecMatrix == InitMatrix /\ [][NextMatrix]_vars

(******************** specification: similarity matrix *********************)
\* Recording durations: the span of the sample indices, once and twice.
InitSimilarity ==
    InitIdle /\ t_max \in {MaxVecSample + 1, 2 * (MaxVecSample + 1)}

NextSimilarity == Call_compute_similarity_matrix \/ Return

SpecSimilarity == InitSimilarity /\ [][NextSimilarity]_vars

(******************** specification: contamination ************************)
\* Recording durations: the span of the sample indices, once and three times.
InitContamination ==
    InitIdle /\ t_max \in {MaxSample + 1, 3 * (MaxSample + 1)}

NextContamination ==
    \/ Call_estimate_contamination
    \/ Call_estimate_cross_contamination
    \/ Return

SpecContamination == InitContamination /\ [][NextContamination]_vars

(******************** specification: invalid inputs ***********************)
InitInvalidInput == InitIdle /\ t_max = MaxSample + 1

NextInvalidInput ==
    \/ Invalid_compute_nb_violations
    \/ Invalid_compute_nb_coincidence
    \/ Invalid_compute_coincidence_matrix
    \/ Invalid_estimate_contamination
    \/ Invalid_estimate_cross_contamination
    \/ Call_compute_similarity_matrix
    \/ Return

SpecInvalidInput == InitInvalidInput /\ [][NextInvalidInput]_vars

(***************************************************************************)
(* Properties of the counting sweeps                                       *)
(***************************************************************************)
StrictlyAscending(s) == \A i \in 1..(Len(s) - 1) : s[i] < s[i + 1]

\* Every gap between consecutive spikes of s is larger than g samples.
GapsExceed(s, g) == \A i \in 1..(Len(s) - 1) : s[i + 1] - s[i] > g

\* Every gap between consecutive spikes of s is larger than k / WinDen samples.
GapsExceedWindow(s, k) ==
    \A i \in 1..(Len(s) - 1) : (s[i + 1] - s[i]) * WinDen > k

\* C1: compute_nb_coincidence is symmetric in its two trains: the count
\* returned for (A, B, w) is the count for (B, A, w), for every window.
C1_CoincidenceSymmetric ==
    op = "compute_nb_coincidence" =>
        ret = Value(compute_nb_coincidence(args.spike_train2, args.spike_train1,
                                           args.max_time))

\* A call on two different trains and a fractional window whose count
\* includes border-weighted pairs.
C1_Witness ==
    /\ op = "compute_nb_coincidence"
    /\ Len(args.spike_train1) = MaxLen
    /\ Len(args.spike_train2) = 2
    /\ args.max_time > WinDen
    /\ args.max_time % WinDen # 0
    /\ ret.value % Scale # 0

\* C2: compute_nb_violations is non-decreasing in the window: the count for
\* w1 is at most the count for every w2 >= w1 (w <= 0, fractional and
\* integer windows alike).
C2_ViolationsMonotone ==
    op = "compute_nb_violations" =>
        \A w2 \in Windows :
            args.max_time <= w2 =>
                ret.value <= compute_nb_violations(args.spike_train, w2)

\* A call with a window just below one sample whose count grows when the
\* window crosses 1.
C2_Witness ==
    /\ op = "compute_nb_violations"
    /\ Len(args.spike_train) = MaxLen
    /\ args.max_time = WinDen - 1
    /\ ret.value > 0
    /\ ret.value < compute_nb_violations(args.spike_train, WinDen)
    /\ compute_nb_violations(args.spike_train, WinDen)
         < compute_nb_violations(args.spike_train, WinDen + 1)

SelfCall ==
    /\ op = "compute_nb_coincidence"
    /\ args.spike_train1 = args.spike_train2
    /\ StrictlyAscending(args.spike_train1)

\* C3 as stated: a strictly ascending train compared with itself under a
\* window below its smallest gap counts exactly its own spikes.
C3_Original ==
    (SelfCall /\ GapsExceedWindow(args.spike_train1, args.max_time)) =>
        ret.value = Len(args.spike_train1) * Scale

\* C3 amended: a strictly ascending train compared with itself under a
\* window of at least one sample whose ceiling is below the smallest gap
\* counts exactly its own spikes.
C3_SelfCoincidence ==
    (/\ SelfCall
     /\ args.max_time >= WinDen
     /\ GapsExceed(args.spike_train1, Ceil(args.max_time))) =>
        ret.value = Len(args.spike_train1) * Scale

\* A self-comparison of several spikes under a fractional window above 1.
C3_Witness ==
    /\ SelfCall
    /\ Len(args.spike_train1) >= 2
    /\ args.max_time > WinDen
    /\ args.max_time % WinDen # 0
    /\ GapsExceed(args.spike_train1, Ceil(args.max_time))
    /\ ret.value = Len(args.spike_train1) * Scale

(***************************************************************************)
(* The sweeps against the brute-force sums                                 *)
(***************************************************************************)
\* The weight (over Scale) of a pair d >= 0 samples apart under the window
\* max_time > 0: 1 strictly inside floor(max_time), p_low at floor(max_time),
\* p_high at ceil(max_time), 0 beyond.
PairWeight(d, max_time) ==
    IF d > Ceil(max_time) THEN 0
    ELSE IF d = Floor(max_time) THEN p_low(max_time)
    ELSE IF d = Ceil(max_time) THEN p_high(max_time)
    ELSE Scale

\* The sum of the weights of the distances dist[p], p in DOMAIN dist.
RECURSIVE WeightSum(_, _)
WeightSum(dist, max_time) ==
    IF DOMAIN dist = {} THEN 0
    ELSE LET p == CHOOSE q \in DOMAIN dist : TRUE IN
         PairWeight(dist[p], max_time)
           + WeightSum([q \in DOMAIN dist \ {p} |-> dist[q]], max_time)

\* Every ordered pair i < j of one train, with its distance.
BruteViolations(s, max_time) ==
    WeightSum([p \in {q \in (1..Len(s)) \X (1..Len(s)) : q[1] < q[2]} |->
                  s[p[2]] - s[p[1]]], max_time)

\* Every pair (i, j) of two trains, with its absolute distance.
BruteCoincidences(s1, s2, max_time) ==
    WeightSum([p \in (1..Len(s1)) \X (1..Len(s2)) |-> Abs(s1[p[1]] - s2[p[2]])],
              max_time)

\* C11: compute_nb_violations returns 0 for a window max_time <= 0 and
\* otherwise the brute-force sum, over all ordered pairs i < j of the
\* ascending train, of the weight of the pair's distance: the break of the
\* inner loop drops no pair of non-zero weight.
C11_ViolationsAreBruteForce ==
    op = "compute_nb_violations" =>
        ret.value = IF args.max_time <= 0 THEN 0
                    ELSE BruteViolations(args.spike_train, args.max_time)

\* A fractional window under which the inner loop breaks before the last
\* spike, after it counted a pair at floor(max_time) and a pair at
\* ceil(max_time).
C11_Witness ==
    /\ op = "compute_nb_violations"
    /\ args.max_time > WinDen
    /\ args.max_time % WinDen # 0
    /\ \E i, j \in 1..Len(args.spike_train) :
          i < j /\ args.spike_train[j] - args.spike_train[i] > Ceil(args.max_time)
    /\ \E i, j \in 1..Len(args.spike_train) :
          i < j /\ args.spike_train[j] - args.spike_train[i] = Ceil(args.max_time)
    /\ \E i, j \in 1..Len(args.spike_train) :
          i < j /\ args.spike_train[j] - args.spike_train[i] = Floor(args.max_time)
    /\ ret.value = BruteViolations(args.spike_train, args.max_time)

\* The lower bound start_j when the outer loop has handled the first n
\* spikes of train 1.
StartJAfter(s1, s2, n, max_time) ==
    CoincidenceOuter(SubSeq(s1, 1, n), s2, 0, _get_border_probabilities(max_time),
                     [start_j |-> 0, c |-> ZeroCounts]).start_j

\* C12: for ascending trains and a window max_time > 0,
\* compute_nb_coincidence returns the brute-force sum over every pair (i, j)
\* of the weight of |A[i] - B[j]|, and the lower bound start_j has only
\* skipped spikes of B that are more than ceil(max_time) before the current
\* and every later spike of A.
C12_CoincidencesAreBruteForce ==
    (op = "compute_nb_coincidence" /\ args.max_time > 0) =>
        /\ ret.value = BruteCoincidences(args.spike_train1, args.spike_train2,
                                         args.max_time)
        /\ \A n \in 1..Len(args.spike_train1) :
             \A j \in 1..StartJAfter(args.spike_train1, args.spike_train2, n,
                                     args.max_time) :
               \A i \in n..Len(args.spike_train1) :
                  args.spike_train1[i] - args.spike_train2[j] > Ceil(args.max_time)

\* A sweep that skipped early spikes of B for good, stopped before a late
\* one, and counted border-weighted pairs on both sides.
C12_Witness ==
    /\ op = "compute_nb_coincidence"
    /\ args.max_time > 0
    /\ args.max_time % WinDen # 0
    /\ Len(args.spike_train1) = MaxLen
    /\ StartJAfter(args.spike_train1, args.spike_train2, MaxLen, args.max_time) > 0
    /\ \E i \in 1..Len(args.spike_train1), j \in 1..Len(args.spike_train2) :
          args.spike_train2[j] - args.spike_train1[i] > Ceil(args.max_time)
    /\ \E i \in 1..Len(args.spike_train1), j \in 1..Len(args.spike_train2) :
          args.spike_train2[j] - args.spike_train1[i] = Ceil(args.max_time)
    /\ \E i \in 1..Len(args.spike_train1), j \in 1..Len(args.spike_train2) :
          args.spike_train1[i] - args.spike_train2[j] = Floor(args.max_time)
    /\ ret.value = BruteCoincidences(args.spike_train1, args.spike_train2,
                                     args.max_time)

(***************************************************************************)
(* Properties of the coincidence matrix                                    *)
(***************************************************************************)
\* The largest label of a spike vector, read off the set of its labels.
MaxLabelOf(v) ==
    CHOOSE a \in 0..MaxLabel :
        /\ \E i \in 1..Len(v) : v[i].unit_ind = a
        /\ \A i \in 1..Len(v) : v[i].unit_ind <= a

\* The pairs (i, j) of spikes of units a and b at most w samples apart.
CoincidentPairs(v1, v2, a, b, w) ==
    { p \in (1..Len(v1)) \X (1..Len(v2)) :
        /\ v1[p[1]].unit_ind = a
        /\ v2[p[2]].unit_ind = b
        /\ Abs(v1[p[1]].sample_ind - v2[p[2]].sample_ind) <= w }

\* C4: the matrix has one row per label 0..max label of sorting 1 and one
\* column per label 0..max label of sorting 2, and entry [a, b] is the
\* number of pairs of spikes of units a and b at most max_time apart (a pair
\* exactly max_time apart included): the sweep neither misses nor
\* double-counts a pair.
C4_MatrixIsBruteForce ==
    op = "compute_coincidence_matrix" =>
        LET v1 == args.spike_vector1
            v2 == args.spike_vector2
        IN  /\ DOMAIN ret.value = (0..MaxLabelOf(v1)) \X (0..MaxLabelOf(v2))
            /\ \A c \in DOMAIN ret.value :
                  ret.value[c] =
                      Cardinality(CoincidentPairs(v1, v2, c[1], c[2], args.window))

\* A call where the sweep both skips spikes of sorting 2 that are too early
\* and breaks on one that is too late, and counts a pair exactly max_time
\* apart.
C4_Witness ==
    /\ op = "compute_coincidence_matrix"
    /\ Len(args.spike_vector1) = MaxVecLen
    /\ Len(args.spike_vector2) = MaxVecLen
    /\ args.window > 0
    /\ \E i \in 1..Len(args.spike_vector1), j \in 1..Len(args.spike_vector2) :
          args.spike_vector1[i].sample_ind - args.spike_vector2[j].sample_ind
              > args.window
    /\ \E i \in 1..Len(args.spike_vector1), j \in 1..Len(args.spike_vector2) :
          args.spike_vector2[j].sample_ind - args.spike_vector1[i].sample_ind
              = args.window
    /\ \E c \in DOMAIN ret.value : ret.value[c] > 0
    /\ \E c \in DOMAIN ret.value : ret.value[c] = 0

\* A similarity call that compares a sorting with itself with its own counts.
SelfSimilarity ==
    /\ op = "compute_similarity_matrix"
    /\ args.n_spikes2 = args.n_spikes1
    /\ ret.kind = "value"

\* The distinct spikes of unit a are all more than max_time apart.
UnitIsolated(v, a, w) ==
    \A i, j \in 1..Len(v) :
        (i # j /\ v[i].unit_ind = a /\ v[j].unit_ind = a) =>
            Abs(v[i].sample_ind - v[j].sample_ind) > w

\* C5 as stated: a sorting compared with itself has similarity 1.0 on the
\* diagonal for every unit index 0..max label.
C5_Original ==
    SelfSimilarity =>
        \A a \in 0..MaxLabelOf(args.spike_vector) : ret.value[<<a, a>>] = One

\* C5 amended: a sorting compared with itself has similarity 1.0 on the
\* diagonal for every unit that has a spike, whose distinct spikes are all
\* more than max_time apart, and whose chance term is not exactly 1
\* (n_spikes * (2 * window + 1) differs from t_max).
C5_SelfSimilarityDiagonal ==
    SelfSimilarity =>
        \A a \in 0..MaxLabelOf(args.spike_vector) :
            (/\ args.n_spikes1[a + 1] > 0
             /\ UnitIsolated(args.spike_vector, a, args.max_time)
             /\ args.n_spikes1[a + 1] * (args.window2 + 1) # t_max) =>
                ret.value[<<a, a>>] = One

\* A self-comparison with a chance term, two units and a unit of two
\* isolated spikes.
C5_Witness ==
    /\ SelfSimilarity
    /\ args.window2 >= 0
    /\ MaxLabelOf(args.spike_vector) >= 1
    /\ \E a \in 0..MaxLabelOf(args.spike_vector) :
          /\ args.n_spikes1[a + 1] >= 2
          /\ UnitIsolated(args.spike_vector, a, args.max_time)
          /\ args.n_spikes1[a + 1] * (args.window2 + 1) # t_max
          /\ ret.value[<<a, a>>] = One

(***************************************************************************)
(* Properties of the contamination estimates                               *)
(***************************************************************************)
Zero_0 == OneMinusSqrt(One)

One_0 == OneMinusSqrt(<<0, 1>>)

\* A call of estimate_contamination on a train that is not empty.
ContaminationCall ==
    /\ op = "estimate_contamination"
    /\ Len(args.spike_train) > 0

\* C6 as stated: when every inter-spike gap exceeds t_r in samples the
\* estimated contamination is exactly 0.0.
C6_Original ==
    (/\ ContaminationCall
     /\ GapsExceedWindow(args.spike_train, ToSamples(args.refractory_period[2]))) =>
        ret = Value(Zero_0)

\* C6 amended: when every inter-spike gap exceeds the ceiling of t_r in
\* samples the estimated contamination is exactly 0.0.
C6_NoViolationNoContamination ==
    (/\ ContaminationCall
     /\ GapsExceed(args.spike_train, Ceil(ToSamples(args.refractory_period[2])))) =>
        ret = Value(Zero_0)

\* Several spikes, a censored period and a fractional t_r whose ceiling is
\* below every gap.
C6_Witness ==
    /\ ContaminationCall
    /\ Len(args.spike_train) >= 2
    /\ args.refractory_period[1] > 0
    /\ ToSamples(args.refractory_period[2]) > WinDen
    /\ ToSamples(args.refractory_period[2]) % WinDen # 0
    /\ GapsExceed(args.spike_train, Ceil(ToSamples(args.refractory_period[2])))
    /\ ret = Value(Zero_0)

\* C7: on a train that is not empty the estimate lies in [0, 1]: it is 1.0
\* when the determinant D is negative and 1 - sqrt(D) otherwise
\* (1 - sqrt(q) is in [0, 1] exactly when 0 <= q <= 1).  Stated for the
\* strictly ascending trains, the trains of the data model, among the
\* ascending ones.
C7_ContaminationInUnitInterval ==
    (ContaminationCall /\ StrictlyAscending(args.spike_train)) =>
        LET D == Determinant(compute_nb_violations(args.spike_train,
                                 ToSamples(args.refractory_period[2])),
                             Len(args.spike_train), t_max,
                             ToSamples(args.refractory_period[1]),
                             ToSamples(args.refractory_period[2])).value
            q == ret.value.one_minus_sqrt
        IN  /\ ret.kind = "value"
            /\ ret.value = (IF D[1] < 0 THEN One_0 ELSE OneMinusSqrt(D))
            /\ 0 <= q[1]
            /\ q[1] <= q[2]

\* C9: with an empty (first) spike train estimate_contamination and
\* estimate_cross_contamination fail with a division by zero and return
\* nothing.
C9_EmptyTrainDivisionByZero ==
    (\/ op = "estimate_contamination" /\ Len(args.spike_train) = 0
     \/ op = "estimate_cross_contamination" /\ Len(args.spike_train1) = 0) =>
        ret = Raise("ZeroDivisionError")

\* The failure of estimate_contamination leaves estimate_cross_contamination
\* although the second train has spikes.
C9_Witness ==
    /\ op = "estimate_cross_contamination"
    /\ Len(args.spike_train1) = 0
    /\ Len(args.spike_train2) = MaxShortLen
    /\ ret = Raise("ZeroDivisionError")

\* The quantities of a call of estimate_cross_contamination, from its
\* arguments.
CrossCall ==
    /\ op = "estimate_cross_contamination"
    /\ Len(args.spike_train1) > 0

CrossC1 == estimate_contamination(args.spike_train1, args.refractory_period, t_max).value

CrossViolations ==
    compute_nb_coincidence(args.spike_train1, args.spike_train2,
                           ToSamples(args.refractory_period[2]))
    - compute_nb_coincidence(args.spike_train1, args.spike_train2,
                             ToSamples(args.refractory_period[1]))

\* C10: when the contamination C1 of the first train is exactly 1 the call
\* does not raise and returns (-infinity, p_value), the test still being
\* made with n = N1*N2*((1-C1)*limit + C1) and p = 2*t_r/T; when C1 is not 1
\* (and the second train has a spike to divide by) the estimate is
\* 1 - ((n_violations*T)/(2*N1*N2*t_r) - 1)/(C1 - 1).
C10_SentinelNotException ==
    CrossCall =>
        LET N1 == Len(args.spike_train1)
            N2 == Len(args.spike_train2)
            t_r == Rat(ToSamples(args.refractory_period[2]), WinDen)
        IN  /\ CrossC1 = One_0 =>
                  /\ ret.kind = "value"
                  /\ ret.value[1] = MinusInfinity
                  /\ ret.value[2].k = CrossViolations
                  /\ ret.value[2].n = [N1N2 |-> N1 * N2, C1 |-> One_0,
                                       limit |-> args.limit]
                  /\ ret.value[2].p = RatMul(<<2, 1>>, RatMul(t_r, Rat(1, t_max)))
            /\ (CrossC1 # One_0 /\ N2 > 0) =>
                  /\ ret.kind = "value"
                  /\ ret.value[1].kind = "finite"
                  /\ ret.value[1].C1 = CrossC1
                  /\ ret.value[1].x =
                        NpDivide(RatMul(Rat(CrossViolations, Scale), <<t_max, 1>>),
                                 RatMul(<<2 * N1 * N2, 1>>, t_r))

\* A fully contaminated first train against a second train with net
\* coincidences in the refractory band.
C10_Witness ==
    /\ CrossCall
    /\ Len(args.spike_train2) > 0
    /\ CrossC1 = One_0
    /\ CrossViolations > 0
    /\ args.refractory_period[1] > 0
    /\ ret.kind = "value"
    /\ ret.value[1] = MinusInfinity

(***************************************************************************)
(* Further properties of the coincidence matrix and of the net count of    *)
(* estimate_cross_contamination                                            *)
(***************************************************************************)
\* No spike of v1 has the sample index of a spike of v2.
NoSharedSample(v1, v2) ==
    \A i \in 1..Len(v1), j \in 1..Len(v2) : v1[i].sample_ind # v2[j].sample_ind

\* C13: for two spike vectors that share no sample index, the coincidence
\* matrix computed with max_time = 0 is zero in every cell.
C13_DisjointVectorsZeroMatrix ==
    (/\ op = "compute_coincidence_matrix"
     /\ args.window = 0
     /\ NoSharedSample(args.spike_vector1, args.spike_vector2)) =>
        \A c \in DOMAIN ret.value : ret.value[c] = 0

\* Two interleaved sortings, one sample apart, under max_time = 0: the
\* sweep skips a spike of sorting 2 and breaks on another.
C13_Witness ==
    /\ op = "compute_coincidence_matrix"
    /\ args.window = 0
    /\ NoSharedSample(args.spike_vector1, args.spike_vector2)
    /\ Len(args.spike_vector1) = MaxVecLen
    /\ Len(args.spike_vector2) = MaxVecLen
    /\ \E i \in 1..Len(args.spike_vector1), j \in 1..Len(args.spike_vector2) :
          args.spike_vector1[i].sample_ind - args.spike_vector2[j].sample_ind = 1
    /\ \E i \in 1..Len(args.spike_vector1), j \in 1..Len(args.spike_vector2) :
          args.spike_vector2[j].sample_ind - args.spike_vector1[i].sample_ind = 1
    /\ Cardinality(DOMAIN ret.value) > 1
    /\ \A c \in DOMAIN ret.value : ret.value[c] = 0

\* C18: the coincidence matrix of (V1, V2) is the transpose of the matrix of
\* (V2, V1), for time-sorted spike vectors and every max_time >= 0.
C18_MatrixTransposeSymmetric ==
    op = "compute_coincidence_matrix" =>
        LET swapped == compute_coincidence_matrix_from_vector(
                           args.spike_vector2, args.spike_vector1, args.window)
        IN  /\ DOMAIN swapped = { <<c[2], c[1]>> : c \in DOMAIN ret.value }
            /\ \A c \in DOMAIN ret.value : ret.value[c] = swapped[<<c[2], c[1]>>]

\* Two different sortings whose matrix is not symmetric, where the sweep
\* skips a spike of sorting 2 for good and counts a pair exactly max_time
\* apart.
C18_Witness ==
    /\ op = "compute_coincidence_matrix"
    /\ args.window > 0
    /\ args.spike_vector1 # args.spike_vector2
    /\ \E i \in 1..Len(args.spike_vector1), j \in 1..Len(args.spike_vector2) :
          args.spike_vector1[i].sample_ind - args.spike_vector2[j].sample_ind
              > args.window
    /\ \E i \in 1..Len(args.spike_vector1), j \in 1..Len(args.spike_vector2) :
          args.spike_vector1[i].sample_ind - args.spike_vector2[j].sample_ind
              = args.window
    /\ <<0, 1>> \in DOMAIN ret.value
    /\ <<1, 0>> \in DOMAIN ret.value
    /\ ret.value[<<0, 1>>] # ret.value[<<1, 0>>]

\* The count of compute_nb_coincidence for the trains of the call in flight
\* under each refractory bound of the grid (in 1/WinDen ms).
CoincidencesByBound ==
    [k \in 0..MaxRefractory |->
        compute_nb_coincidence(args.spike_train1, args.spike_train2, ToSamples(k))]

\* C17: in estimate_cross_contamination the net count
\* compute_nb_coincidence(A, B, t_r) - compute_nb_coincidence(A, B, t_c) is
\* never negative for 0 <= t_c <= t_r: the count does not decrease when the
\* window grows, across integer windows and the floor(max_time) = 0
\* correction alike.
C17_NetViolationsNonNegative ==
    op = "estimate_cross_contamination" =>
        LET counts == Computed(CoincidencesByBound)
        IN  /\ CrossViolations >= 0
            /\ \A r \in AnyPeriods : r[1] <= r[2] => counts[r[1]] <= counts[r[2]]

\* A call whose censored period is below one sample (the correction of
\* p_low applies) and whose refractory period is above it, with coincident
\* spikes counted under both.
C17_Witness ==
    /\ op = "estimate_cross_contamination"
    /\ ToSamples(args.refractory_period[1]) > 0
    /\ ToSamples(args.refractory_period[1]) < WinDen
    /\ ToSamples(args.refractory_period[2]) > WinDen
    /\ compute_nb_coincidence(args.spike_train1, args.spike_train2,
                              ToSamples(args.refractory_period[1])) > 0
    /\ CrossViolations > 0
    /\ ret.kind = "value"

(***************************************************************************)
(* Properties of the handling of invalid inputs                            *)
(***************************************************************************)
InvalidTrain(s) ==
    \/ \E i \in 1..Len(s) : s[i] < 0
    \/ \E i \in 1..(Len(s) - 1) : s[i] > s[i + 1]

\* The call in flight is one the data model forbids.
InvalidCall ==
    \/ op = "compute_nb_violations" /\ InvalidTrain(args.spike_train)
    \/ /\ op = "compute_nb_coincidence"
       /\ InvalidTrain(args.spike_train1) \/ InvalidTrain(args.spike_train2)
    \/ /\ op = "compute_coincidence_matrix"
       /\ \/ InvalidTrain(SampleInd(args.spike_vector1))
          \/ InvalidTrain(SampleInd(args.spike_vector2))
    \/ /\ op = "estimate_contamination"
       /\ \/ InvalidTrain(args.spike_train)
          \/ args.refractory_period[1] >= args.refractory_period[2]
    \/ /\ op = "estimate_cross_contamination"
       /\ \/ InvalidTrain(args.spike_train1)
          \/ InvalidTrain(args.spike_train2)
          \/ args.refractory_period[1] >= args.refractory_period[2]
    \/ /\ op = "compute_similarity_matrix"
       /\ Shape(args.coincidence_matrix) # <<Len(args.n_spikes1), Len(args.n_spikes2)>>

\* C8 as stated: every invalid input is rejected: the call fails with an
\* error and returns no numeric result.
C8_Original == InvalidCall => ret.kind = "raise"

\* C8 amended: only compute_similarity_matrix checks its input: a matrix
\* whose shape differs from the two count vectors fails with an assertion
\* error.  The counting functions and the coincidence matrix return a
\* result on trains that are not ascending or hold negative samples, and so
\* does estimate_contamination on such a train (not empty) or with
\* t_c > t_r; with t_c = t_r both estimates fail, by a division by zero.
C8_OnlyShapeIsValidated ==
    InvalidCall =>
        /\ op = "compute_similarity_matrix" => ret = Raise("AssertionError")
        /\ op \in {"compute_nb_violations", "compute_nb_coincidence",
                   "compute_coincidence_matrix"} => ret.kind = "value"
        /\ (op = "estimate_contamination" /\ Len(args.spike_train) > 0) =>
              IF args.refractory_period[1] = args.refractory_period[2]
              THEN ret = Raise("ZeroDivisionError")
              ELSE ret.kind = "value"
        /\ (/\ op = "estimate_cross_contamination"
            /\ args.refractory_period[1] = args.refractory_period[2]) =>
              ret = Raise("ZeroDivisionError")

\* A train that goes backwards and holds a negative sample is counted, not
\* rejected.
C8_Witness ==
    /\ op = "compute_nb_coincidence"
    /\ \E i \in 1..(Len(args.spike_train1) - 1) :
          args.spike_train1[i] > args.spike_train1[i + 1]
    /\ \E i \in 1..Len(args.spike_train1) : args.spike_train1[i] < 0
    /\ ret.kind = "value"
    /\ ret.value > 0

(***************************************************************************)
(* Properties of the gaussian kernel                                       *)
(***************************************************************************)
\* The number of events at each distance 0..width of the axis point t.
EventsInWindow(events, t, width) ==
    [d \in 0..width |-> Cardinality({j \in 1..Len(events) : Abs(events[j] - t) = d})]

C15_TemplatesShape ==
    op = "get_templates" =>
        /\ ret.kind = "value"
        /\ ret.value.templates =
              <<args.n_units,
                RoundHalfEven((args.ms_before + args.ms_after) * SamplesPerMs, WinDen),
                args.n_channels>>

(***************************************************************************)
(* Properties of filter                                                    *)
(***************************************************************************)
\* C16: filter is linear: filter(a*x + b*y, band) equals
\* a*filter(x, band) + b*filter(y, band), for every band and in both regimes
\* of the masks (in exact arithmetic: the rounding of the floats is not
\* modelled).
C16_FilterLinear ==
    op = "filter" =>
        ret.value =
            Combine(args.a,
                    filter(args.x, args.N, args.gaussian_highpass, args.gaussian_lowpass),
                    args.b,
                    filter(args.y, args.N, args.gaussian_highpass, args.gaussian_lowpass),
                    args.N)

\* Four samples whose transform has an imaginary part, a highpass mask of
\* the frequency regime and a lowpass mask of the time regime, a negative
\* scalar, and an output that is not zero.
C16_Witness ==
    /\ op = "filter"
    /\ args.N = 4
    /\ Regime(args.band[1]) = "frequency"
    /\ Regime(args.band[2]) = "time"
    /\ args.a < 0
    /\ args.b > 0
    /\ Fft([n \in 0..3 |-> <<args.data[n], 0>>], 4)[1][2] # 0
    /\ \E n \in 0..3 : ret.value[n] < 0
    /\ \E n \in 0..3 : ret.value[n] > 0
    /\ filter(args.x, 4, args.gaussian_highpass, args.gaussian_lowpass)
         # filter(args.y, 4, args.gaussian_highpass, args.gaussian_lowpass)

====
